---- MODULE Spec2Model ----
(***************************************************************************)
(* A model of the Warframe export ingestion pipeline:                      *)
(*   - src/ingestion/data_downloader.py : index fetch, resilient           *)
(*     decompression, manifest download loop;                              *)
(*   - src/graph/ingest_neo4j.py, src/graph/models.py : validation of raw  *)
(*     records and materialisation of the property graph.                  *)
(* Raw JSON records are functions whose DOMAIN is the set of keys present  *)
(* (a Python dict); the graph store is a map of nodes and a bag of edges.  *)
(***************************************************************************)
EXTENDS Integers, Sequences, FiniteSets, TLC

VARIABLES
    disk,      \* data_raw/: manifest kind -> list of raw records, or Missing
    saves,     \* number of manifest files (re)written so far
    nodes,     \* graph store: <<label, key>> -> [n, props]
    edges,     \* graph store: edge record -> number of copies
    pc,        \* position of the ingestion process
    cur,       \* the record list the current pass has read from its file
    idx,       \* 1-based position of the current pass in cur
    cats,      \* ingest_weapons: the categories set (then: those left to link)
    log,       \* statements issued to the store and reports printed, this run
    ends,      \* stores at the end of the latest consecutive completed runs
    stdin,     \* what the operator has typed and input() has not read yet
    byt,       \* download_and_decompress: response.content
    length,    \* download_and_decompress: the candidate length
    fpc,       \* position of the downloader script
    text,      \* the decoded index text (written to index_en.txt)
    manifests, \* the list get_all_manifests returned
    mi,        \* 1-based position of the download loop in manifests
    attempts,  \* the downloads attempted, with outcome and file written
    output,    \* what the downloader printed
    status     \* the HTTP status of the index response

ingestVars == <<disk, saves, nodes, edges, pc, cur, idx, cats, log, ends, stdin>>

fetchVars == <<byt, length, fpc, text, manifests, mi, attempts, output, status>>

vars == <<ingestVars, fetchVars>>

----------------------------------------------------------------------------
(* Bounds of the model *)

\* longest manifest (records per file)
MaxLen == 2
\* manifest files rewritten by the downloader between ingestion runs
MaxSaves == 1
\* compressed frames at the head of an index response
MaxFrames == 2
\* arbitrary bytes that follow the frames of an index response
MaxTail == 2

----------------------------------------------------------------------------
(* Values *)

\* Python None, as a query parameter
None == "None"
\* a file that does not exist
Missing == <<[missing |-> TRUE]>>
EmptyMap == [k \in {} |-> None]
\* index_en.txt not written; no manifest file written
NoText == <<"(no file)">>
NoFile == <<"(none)">>

Names == {"a", "b"}
RecipeNames == {"r"}
Categories == {"Pistols"}
\* values that are no integer (fail Optional[int])
Malformed == {"free"}

Kinds == {"resources", "weapons", "recipes"}

Get(d, k, default) == IF k \in DOMAIN d THEN d[k] ELSE default

BoundedSeq(S, n) == UNION {[1..k -> S] : k \in 0..n}

----------------------------------------------------------------------------
(* Raw records of the three manifests *)

ResourceRecords ==
    {[uniqueName |-> k, name |-> "n"] : k \in Names}
    \cup {[uniqueName |-> k, name |-> "n", description |-> "d"] : k \in Names}
    \cup {[uniqueName |-> k] : k \in Names}

WeaponRecords ==
    {[uniqueName |-> k, name |-> "n"] : k \in Names}
    \cup {[uniqueName |-> k, name |-> "n", productCategory |-> c] :
             k \in Names, c \in Categories}
    \cup {[uniqueName |-> k] : k \in Names}

Ingredients ==
    { <<>>,
      <<[ItemType |-> "a", ItemCount |-> 5]>>,
      <<[ItemType |-> "b"]>>,
      <<[ItemType |-> "b"], [ItemType |-> "a", ItemCount |-> 5]>> }

RecipeRecords ==
    {[uniqueName |-> k, resultType |-> t, ingredients |-> i] :
         k \in RecipeNames, t \in Names, i \in Ingredients}
    \cup {[uniqueName |-> k, resultType |-> t, num |-> 2, ingredients |-> i] :
         k \in RecipeNames, t \in Names, i \in Ingredients}
    \cup {[uniqueName |-> k, resultType |-> "a", buildPrice |-> p,
           ingredients |-> <<[ItemType |-> "a", ItemCount |-> 5]>>] :
         k \in RecipeNames, p \in Malformed}
    \cup {[resultType |-> "a"]}

\* uniqueName is a natural key: no two records of one manifest carry the same
WellKeyed(m) ==
    \A i, j \in 1..Len(m) :
        (i # j /\ "uniqueName" \in DOMAIN m[i] /\ "uniqueName" \in DOMAIN m[j])
            => m[i].uniqueName # m[j].uniqueName

RecordsOf(kind) ==
    CASE kind = "resources" -> ResourceRecords
      [] kind = "weapons"   -> WeaponRecords
      [] kind = "recipes"   -> RecipeRecords

Manifests(kind) == {m \in BoundedSeq(RecordsOf(kind), MaxLen) : WellKeyed(m)}

\* what data_raw/ may hold for a manifest
Files(kind) == Manifests(kind) \cup {Missing}

----------------------------------------------------------------------------
(* models.py: validation *)

\* ResourceNode(**resource_data): uniqueName and name are required
ValidResource(r) == "uniqueName" \in DOMAIN r /\ "name" \in DOMAIN r

\* WeaponNode(**weapon_data): uniqueName and name are required
ValidWeapon(r) == "uniqueName" \in DOMAIN r /\ "name" \in DOMAIN r

\* RecipeNode(**recipe_data): uniqueName and resultType are required,
\* buildPrice is Optional[int]
ValidRecipe(r) ==
    /\ "uniqueName" \in DOMAIN r
    /\ "resultType" \in DOMAIN r
    /\ ("buildPrice" \in DOMAIN r => r.buildPrice \notin Malformed)

\* model_dump(exclude=excl, exclude_none=True) of a validated record: the
\* declared fields that are set and the extra fields, without excl
ModelDump(r, excl) == [f \in (DOMAIN r) \ excl |-> r[f]]

----------------------------------------------------------------------------
(* The graph store and the Cypher statements the ingestion issues *)

Node(label, key) == <<label, key>>

\* every label merged on uniqueName
KeyFieldUniform(label) == "uniqueName"

\* the key property of a label: MERGE (c:Category {name: ..}), else uniqueName
KeyField(label) == IF label = "Category" THEN "name" ELSE "uniqueName"

\* MATCH (x:label {field: value}); a null parameter matches nothing
Match(ns, label, field, value) ==
    IF value = None THEN {}
    ELSE {id \in DOMAIN ns :
            /\ id[1] = label
            /\ field \in DOMAIN ns[id].props
            /\ ns[id].props[field] = value}

\* MERGE (x:label {key}) SET x += props
MergeNode(ns, label, key, props) ==
    LET id == Node(label, key) IN
    IF Match(ns, label, KeyField(label), key) # {}
    THEN [i \in DOMAIN ns |->
            IF i \in Match(ns, label, KeyField(label), key)
            THEN [ns[i] EXCEPT !.props = props @@ @]
            ELSE ns[i]]
    ELSE (id :> [n |-> 1, props |-> props @@ (KeyField(label) :> key)]) @@ ns

Edge(type, src, dst, attrs) ==
    [type |-> type, src |-> src, dst |-> dst, attrs |-> attrs]

\* CREATE (a)-[:type {attrs}]->(b): one more edge whatever exists
CreateEdge(es, e) ==
    IF e \in DOMAIN es THEN [es EXCEPT ![e] = @ + 1] ELSE (e :> 1) @@ es

\* MERGE (a)-[:type {attrs}]->(b) for one matched pair: an existing edge with
\* these attributes is matched, else one is created
MergeEdge(es, e) == IF e \in DOMAIN es THEN es ELSE (e :> 1) @@ es

RECURSIVE MergeEdges(_, _)
MergeEdges(es, new) ==
    IF new = {} THEN es
    ELSE LET e == CHOOSE x \in new : TRUE
         IN MergeEdges(MergeEdge(es, e), new \ {e})

\* MATCH (a:la {fa: va}) MERGE (a)-[:type {attrs}]->(b:lb {fb: vb}): the target
\* is part of the merged pattern and need not exist
PairsOptional(ns, type, la, fa, va, lb, fb, vb, attrs) ==
    {Edge(type, a, Node(lb, vb), attrs) : a \in Match(ns, la, fa, va)}

\* MATCH (a:la {fa: va}) MATCH (b:lb {fb: vb}) MERGE (a)-[:type {attrs}]->(b)
\* RETURN count(*): the edges of the matched pairs
Pairs(ns, type, la, fa, va, lb, fb, vb, attrs) ==
    {Edge(type, a, b, attrs) : a \in Match(ns, la, fa, va),
                               b \in Match(ns, lb, fb, vb)}

\* MATCH (n) DETACH DELETE n
ClearedNodes == EmptyMap

\* a delete that leaves the relationships of the deleted nodes behind
DanglingEdges == edges

ClearedEdges == EmptyMap

Stmt(op, key) == [op |-> op, key |-> key]

----------------------------------------------------------------------------
(* ingest_neo4j.py: the ingestion process *)

Responses == {"yes", "YES", "no"}

\* the answer compared as typed
AsTyped(s) == s

\* str.lower() on the operator's answers
Lower(s) == IF s = "YES" THEN "yes" ELSE s

Store == [nodes |-> nodes, edges |-> edges]

\* the downloader is not running
FetchOff ==
    /\ byt = <<>>
    /\ length = 0
    /\ fpc = "off"
    /\ text = NoText
    /\ manifests = <<>>
    /\ mi = 1
    /\ attempts = <<>>
    /\ output = <<>>
    /\ status = 0

InitIngest ==
    /\ \E r \in Files("resources"), w \in Files("weapons"), c \in Files("recipes") :
          disk = [resources |-> r, weapons |-> w, recipes |-> c]
    /\ saves = 0
    /\ nodes = EmptyMap
    /\ edges = EmptyMap
    /\ pc = "idle"
    /\ cur = <<>>
    /\ idx = 1
    /\ cats = {}
    /\ log = <<>>
    /\ ends = <<>>
    /\ stdin = <<>>
    /\ FetchOff

\* a first export of at most one record per manifest
InitReload ==
    /\ \E r \in Manifests("resources"), w \in Manifests("weapons"),
          c \in Manifests("recipes") :
          /\ Len(r) <= 1 /\ Len(w) <= 1 /\ Len(c) <= 1
          /\ disk = [resources |-> r, weapons |-> w, recipes |-> c]
    /\ saves = 0
    /\ nodes = EmptyMap
    /\ edges = EmptyMap
    /\ pc = "idle"
    /\ cur = <<>>
    /\ idx = 1
    /\ cats = {}
    /\ log = <<>>
    /\ ends = <<>>
    /\ stdin = <<>>
    /\ FetchOff

\* ingest_all with ingest_recipes called before ingest_weapons
RecipesBeforeWeapons(p) ==
    CASE p = "resources" -> "open_recipes"
      [] p = "recipes"   -> "open_weapons"
      [] p = "weapons"   -> "idle"

\* the pass that follows pass p in ingest_all
NextPass(p) ==
    CASE p = "resources" -> "open_weapons"
      [] p = "weapons"   -> "open_recipes"
      [] p = "recipes"   -> "idle"

\* where control goes when pass p returns
Return(p) == NextPass(p)

\* the locals of a pass are gone when it returns; the log of a run ends when
\* control is back at the caller of the run
Locals(to) ==
    /\ cur' = <<>>
    /\ idx' = 1
    /\ cats' = {}
    /\ log' = IF to = "idle" THEN <<>> ELSE log

\* ingest_all, up to input() when clear_first is set, else up to the call of
\* ingest_resources
IngestAll(clear_first) ==
    /\ pc = "idle"
    /\ pc' = IF clear_first THEN "confirm" ELSE "open_resources"
    /\ log' = <<>>
    /\ cur' = <<>>
    /\ idx' = 1
    /\ cats' = {}
    /\ UNCHANGED <<fetchVars, stdin, disk, saves, nodes, edges, ends>>

\* the operator types an answer at the prompt of input()
OperatorAnswers(response) ==
    /\ pc = "confirm"
    /\ stdin = <<>>
    /\ stdin' = <<response>>
    /\ UNCHANGED <<fetchVars, disk, saves, nodes, edges, pc, cur, idx, cats, log, ends>>

\* ingest_all: response = input(..); clear_database() if
\* response.lower() == 'yes'; up to the call of ingest_resources
ConfirmClear ==
    /\ pc = "confirm"
    /\ stdin # <<>>
    /\ LET response == Head(stdin)
           clear == Lower(response) = "yes" IN
        /\ nodes' = IF clear THEN ClearedNodes ELSE nodes
        /\ edges' = IF clear THEN ClearedEdges ELSE edges
        /\ log' = IF clear THEN <<Stmt("clear", None)>> ELSE <<>>
        /\ ends' = IF clear THEN <<>> ELSE ends
    /\ stdin' = Tail(stdin)
    /\ pc' = "open_resources"
    /\ UNCHANGED <<fetchVars, disk, saves, cur, idx, cats>>

\* open(filepath) and json.load at the head of a pass; a missing file raises
\* and the exception leaves ingest_all
OpenFile(kind, at, loop) ==
    /\ pc = at
    /\ IF disk[kind] = Missing
       THEN /\ pc' = "idle"
            /\ cur' = <<>>
            /\ log' = <<>>
            /\ ends' = <<>>
       ELSE /\ pc' = loop
            /\ cur' = disk[kind]
            /\ UNCHANGED <<log, ends>>
    /\ idx' = 1
    /\ cats' = {}
    /\ UNCHANGED <<fetchVars, stdin, disk, saves, nodes, edges>>

OpenResources == OpenFile("resources", "open_resources", "resources")
OpenWeapons == OpenFile("weapons", "open_weapons", "weapons")
OpenRecipes == OpenFile("recipes", "open_recipes", "recipes")

\* ingest_resources with the try around the loop: the first record that
\* fails validation ends the pass
ResourceStepOuterTry ==
    /\ pc = "resources"
    /\ idx <= Len(cur)
    /\ LET r == cur[idx] IN
        IF ValidResource(r)
        THEN /\ nodes' = MergeNode(nodes, "Resource", r.uniqueName,
                                   ModelDump(r, {"uniqueName"}))
             /\ log' = Append(log, Stmt("upsertResource", r.uniqueName))
             /\ idx' = idx + 1
        ELSE /\ nodes' = nodes
             /\ log' = Append(log, Stmt("warnResource",
                                        Get(r, "uniqueName", "unknown")))
             /\ idx' = Len(cur) + 1
    /\ UNCHANGED <<fetchVars, stdin, disk, saves, edges, pc, cur, cats, ends>>

\* ingest_resources: one iteration of the loop over the records
ResourceStep ==
    /\ pc = "resources"
    /\ idx <= Len(cur)
    /\ LET r == cur[idx] IN
        IF ValidResource(r)
        THEN /\ nodes' = MergeNode(nodes, "Resource", r.uniqueName,
                                   ModelDump(r, {"uniqueName"}))
             /\ log' = Append(log, Stmt("upsertResource", r.uniqueName))
        ELSE /\ nodes' = nodes
             /\ log' = Append(log, Stmt("warnResource",
                                        Get(r, "uniqueName", "unknown")))
    /\ idx' = idx + 1
    /\ UNCHANGED <<fetchVars, stdin, disk, saves, edges, pc, cur, cats, ends>>

ResourcesDone ==
    /\ pc = "resources"
    /\ idx > Len(cur)
    /\ pc' = Return("resources")
    /\ Locals(pc')
    /\ UNCHANGED <<fetchVars, stdin, disk, saves, nodes, edges, ends>>

\* ingest_weapons: one iteration of the loop over the records
WeaponStep ==
    /\ pc = "weapons"
    /\ idx <= Len(cur)
    /\ LET r == cur[idx] IN
        IF ValidWeapon(r)
        THEN /\ nodes' = MergeNode(nodes, "Weapon", r.uniqueName,
                                   ModelDump(r, {"uniqueName"}))
             /\ cats' = IF "productCategory" \in DOMAIN r
                        THEN cats \cup {r.productCategory} ELSE cats
             /\ log' = Append(log, Stmt("upsertWeapon", r.uniqueName))
        ELSE /\ nodes' = nodes
             /\ cats' = cats
             /\ log' = Append(log, Stmt("warnWeapon", Get(r, "name", "unknown")))
    /\ idx' = idx + 1
    /\ UNCHANGED <<fetchVars, stdin, disk, saves, edges, pc, cur, ends>>

\* ingest_weapons: the loop is over, _create_weapon_categories is called
WeaponsDone ==
    /\ pc = "weapons"
    /\ idx > Len(cur)
    /\ pc' = "categories"
    /\ UNCHANGED <<fetchVars, stdin, disk, saves, nodes, edges, cur, idx, cats, log, ends>>

\* _create_weapon_categories: one iteration of the loop over the set
CategoryStep ==
    /\ pc = "categories"
    /\ \E c \in cats :
        LET ns == MergeNode(nodes, "Category", c, EmptyMap) IN
        /\ nodes' = ns
        /\ edges' = MergeEdges(edges,
                        Pairs(ns, "BELONGS_TO", "Weapon", "productCategory", c,
                              "Category", "name", c, EmptyMap))
        /\ cats' = cats \ {c}
        /\ log' = log \o <<Stmt("mergeCategory", c), Stmt("linkCategory", c)>>
    /\ UNCHANGED <<fetchVars, stdin, disk, saves, pc, cur, idx, ends>>

CategoriesDone ==
    /\ pc = "categories"
    /\ cats = {}
    /\ pc' = Return("weapons")
    /\ Locals(pc')
    /\ UNCHANGED <<fetchVars, stdin, disk, saves, nodes, edges, ends>>

\* ingest_recipes: one iteration of the loop over the records
RecipeStep ==
    /\ pc = "recipes"
    /\ idx <= Len(cur)
    /\ LET r == cur[idx] IN
        IF ValidRecipe(r)
        THEN /\ nodes' = MergeNode(nodes, "Recipe", r.uniqueName,
                    ModelDump(r, {"uniqueName", "ingredients", "secretIngredients"}))
             /\ log' = Append(log, Stmt("upsertRecipe", r.uniqueName))
        ELSE /\ nodes' = nodes
             /\ log' = Append(log, Stmt("warnRecipe",
                                        Get(r, "uniqueName", "unknown")))
    /\ idx' = idx + 1
    /\ UNCHANGED <<fetchVars, stdin, disk, saves, edges, pc, cur, cats, ends>>

\* ingest_recipes: the loop is over, _create_recipe_relationships(recipes)
RecipesDone ==
    /\ pc = "recipes"
    /\ idx > Len(cur)
    /\ pc' = "links"
    /\ idx' = 1
    /\ UNCHANGED <<fetchVars, stdin, disk, saves, nodes, edges, cur, cats, log, ends>>

\* the BUILDS part with the Resource match tried before the Weapon match
BuildsResourceFirst(es, lg, r) ==
    LET recipe_unique == Get(r, "uniqueName", None)
        result_type == Get(r, "resultType", None)
        attrs == [quantity |-> Get(r, "num", 1)]
        weapon == Pairs(nodes, "BUILDS", "Recipe", "uniqueName", recipe_unique,
                        "Weapon", "uniqueName", result_type, attrs)
        resource == Pairs(nodes, "BUILDS", "Recipe", "uniqueName", recipe_unique,
                          "Resource", "uniqueName", result_type, attrs)
    IN  IF result_type = None
        THEN [edges |-> es, log |-> lg]
        ELSE IF Cardinality(resource) = 0
        THEN [edges |-> MergeEdges(es, weapon),
              log |-> lg \o <<Stmt("buildsResource", recipe_unique),
                              Stmt("buildsWeapon", recipe_unique)>>]
        ELSE [edges |-> MergeEdges(es, resource),
              log |-> Append(lg, Stmt("buildsResource", recipe_unique))]

\* the BUILDS part with the quantity left at 1 whatever num says
BuildsOne(es, lg, r) ==
    LET recipe_unique == Get(r, "uniqueName", None)
        result_type == Get(r, "resultType", None)
        attrs == [quantity |-> 1]
        weapon == Pairs(nodes, "BUILDS", "Recipe", "uniqueName", recipe_unique,
                        "Weapon", "uniqueName", result_type, attrs)
        resource == Pairs(nodes, "BUILDS", "Recipe", "uniqueName", recipe_unique,
                          "Resource", "uniqueName", result_type, attrs)
    IN  IF result_type = None
        THEN [edges |-> es, log |-> lg]
        ELSE IF Cardinality(weapon) = 0
        THEN [edges |-> MergeEdges(es, resource),
              log |-> lg \o <<Stmt("buildsWeapon", recipe_unique),
                              Stmt("buildsResource", recipe_unique)>>]
        ELSE [edges |-> MergeEdges(es, weapon),
              log |-> Append(lg, Stmt("buildsWeapon", recipe_unique))]

\* the BUILDS part of one iteration: [edges, log] after it
Builds(es, lg, r) ==
    LET recipe_unique == Get(r, "uniqueName", None)
        result_type == Get(r, "resultType", None)
        attrs == [quantity |-> Get(r, "num", 1)]
        weapon == Pairs(nodes, "BUILDS", "Recipe", "uniqueName", recipe_unique,
                        "Weapon", "uniqueName", result_type, attrs)
        resource == Pairs(nodes, "BUILDS", "Recipe", "uniqueName", recipe_unique,
                          "Resource", "uniqueName", result_type, attrs)
    IN  IF result_type = None
        THEN [edges |-> es, log |-> lg]
        ELSE IF Cardinality(weapon) = 0
        THEN [edges |-> MergeEdges(es, resource),
              log |-> lg \o <<Stmt("buildsWeapon", recipe_unique),
                              Stmt("buildsResource", recipe_unique)>>]
        ELSE [edges |-> MergeEdges(es, weapon),
              log |-> Append(lg, Stmt("buildsWeapon", recipe_unique))]

\* the REQUIRES part of one iteration, ingredient by ingredient
\* the REQUIRES part with the ingredient matched against Weapons as well
RECURSIVE RequiresAnyItem(_, _, _, _)
RequiresAnyItem(es, lg, r, ingredients) ==
    IF ingredients = <<>> THEN [edges |-> es, log |-> lg]
    ELSE LET ingredient == Head(ingredients)
             item_type == Get(ingredient, "ItemType", None)
             item_count == Get(ingredient, "ItemCount", 1)
             recipe_unique == Get(r, "uniqueName", None)
             item == Pairs(nodes, "REQUIRES", "Recipe", "uniqueName",
                           recipe_unique, "Resource", "uniqueName",
                           item_type, [quantity |-> item_count])
                     \cup Pairs(nodes, "REQUIRES", "Recipe", "uniqueName",
                                recipe_unique, "Weapon", "uniqueName",
                                item_type, [quantity |-> item_count])
         IN  IF item_type = None
             THEN RequiresAnyItem(es, lg, r, Tail(ingredients))
             ELSE RequiresAnyItem(MergeEdges(es, item),
                                  Append(lg, Stmt("requires", recipe_unique)),
                                  r, Tail(ingredients))

RECURSIVE Requires(_, _, _, _)
Requires(es, lg, r, ingredients) ==
    IF ingredients = <<>> THEN [edges |-> es, log |-> lg]
    ELSE LET ingredient == Head(ingredients)
             item_type == Get(ingredient, "ItemType", None)
             item_count == Get(ingredient, "ItemCount", 1)
             recipe_unique == Get(r, "uniqueName", None)
             resource == Pairs(nodes, "REQUIRES", "Recipe", "uniqueName",
                               recipe_unique, "Resource", "uniqueName",
                               item_type, [quantity |-> item_count])
         IN  IF item_type = None
             THEN Requires(es, lg, r, Tail(ingredients))
             ELSE Requires(MergeEdges(es, resource),
                           Append(lg, Stmt("requires", recipe_unique)),
                           r, Tail(ingredients))

\* _create_recipe_relationships: one iteration of the loop over the records
LinkStep ==
    /\ pc = "links"
    /\ idx <= Len(cur)
    /\ LET r == cur[idx]
           b == Builds(edges, log, r)
           q == Requires(b.edges, b.log, r, Get(r, "ingredients", <<>>))
       IN  /\ edges' = q.edges
           /\ log' = q.log
    /\ idx' = idx + 1
    /\ UNCHANGED <<fetchVars, stdin, disk, saves, nodes, pc, cur, cats, ends>>

\* the last two stores of consecutive completed runs of ingest_all
Push(s) == IF Len(ends) < 2 THEN Append(ends, s) ELSE <<ends[2], s>>

\* _create_recipe_relationships and ingest_recipes return; ingest_all prints
\* the summary
LinksDone ==
    /\ pc = "links"
    /\ idx > Len(cur)
    /\ pc' = Return("recipes")
    /\ Locals(pc')
    /\ ends' = Push(Store)
    /\ UNCHANGED <<fetchVars, stdin, disk, saves, nodes, edges>>

\* data_downloader.py: a manifest is downloaded again and its file rewritten
SaveManifest ==
    /\ pc = "idle"
    /\ saves < MaxSaves
    /\ \E kind \in Kinds : \E m \in Manifests(kind) :
        /\ m # disk[kind]
        /\ disk' = [disk EXCEPT ![kind] = m]
    /\ saves' = saves + 1
    /\ ends' = <<>>
    /\ UNCHANGED <<fetchVars, stdin, nodes, edges, pc, cur, idx, cats, log>>

NextIngest ==
    \/ \E c \in BOOLEAN : IngestAll(c)
    \/ \E a \in Responses : OperatorAnswers(a)
    \/ ConfirmClear
    \/ OpenResources
    \/ ResourceStep
    \/ ResourcesDone
    \/ OpenWeapons
    \/ WeaponStep
    \/ WeaponsDone
    \/ CategoryStep
    \/ CategoriesDone
    \/ OpenRecipes
    \/ RecipeStep
    \/ RecipesDone
    \/ LinkStep
    \/ LinksDone

\* the downloader rewrites manifests between runs
NextReload ==
    \/ \E c \in BOOLEAN : IngestAll(c)
    \/ \E a \in Responses : OperatorAnswers(a)
    \/ ConfirmClear
    \/ OpenResources
    \/ ResourceStep
    \/ ResourcesDone
    \/ OpenWeapons
    \/ WeaponStep
    \/ WeaponsDone
    \/ CategoryStep
    \/ CategoriesDone
    \/ OpenRecipes
    \/ RecipeStep
    \/ RecipesDone
    \/ LinkStep
    \/ LinksDone
    \/ SaveManifest

----------------------------------------------------------------------------
(* ingest_neo4j.py: writes the store rejects *)

\* ingest_resources: session.run raises for a valid record; except Exception
\* prints the error and the loop goes on
ResourceStepRejected ==
    /\ pc = "resources"
    /\ idx <= Len(cur)
    /\ ValidResource(cur[idx])
    /\ log' = Append(log, Stmt("errorResource", cur[idx].uniqueName))
    /\ idx' = idx + 1
    /\ UNCHANGED <<fetchVars, stdin, disk, saves, nodes, edges, pc, cur, cats, ends>>

\* ingest_weapons: session.run raises for a valid record, before the
\* category of the record is added to the set
WeaponStepRejected ==
    /\ pc = "weapons"
    /\ idx <= Len(cur)
    /\ ValidWeapon(cur[idx])
    /\ log' = Append(log, Stmt("errorWeapon", cur[idx].uniqueName))
    /\ idx' = idx + 1
    /\ UNCHANGED <<fetchVars, stdin, disk, saves, nodes, edges, pc, cur, cats, ends>>

\* ingest_recipes: session.run raises for a valid record
RecipeStepRejected ==
    /\ pc = "recipes"
    /\ idx <= Len(cur)
    /\ ValidRecipe(cur[idx])
    /\ log' = Append(log, Stmt("errorRecipe", cur[idx].uniqueName))
    /\ idx' = idx + 1
    /\ UNCHANGED <<fetchVars, stdin, disk, saves, nodes, edges, pc, cur, cats, ends>>

\* an exception that nothing catches leaves ingest_all: the run is over, what
\* the statements before it wrote stays written
Raised(statement) ==
    /\ pc' = "idle"
    /\ cur' = <<>>
    /\ idx' = 1
    /\ cats' = {}
    /\ log' = <<Stmt("raised", statement)>>
    /\ ends' = <<>>

\* _create_weapon_categories: one of the two session.run of an iteration
\* raises; there is no try in this function
CategoryStepRaises ==
    /\ pc = "categories"
    /\ \E c \in cats, statement \in {"mergeCategory", "linkCategory"} :
        /\ nodes' = IF statement = "linkCategory"
                     THEN MergeNode(nodes, "Category", c, EmptyMap) ELSE nodes
        /\ Raised(statement)
    /\ UNCHANGED <<fetchVars, stdin, disk, saves, edges>>

\* _create_recipe_relationships: a session.run of an iteration raises; there
\* is no try in this function. The BUILDS statement is the first of the
\* iteration, the REQUIRES statement of the first ingredient follows it.
LinkStepRaises ==
    /\ pc = "links"
    /\ idx <= Len(cur)
    /\ LET r == cur[idx]
           ingredients == Get(r, "ingredients", <<>>)
       IN  \/ /\ Get(r, "resultType", None) # None
              /\ edges' = edges
              /\ Raised("builds")
           \/ /\ ingredients # <<>>
              /\ Get(Head(ingredients), "ItemType", None) # None
              /\ edges' = Builds(edges, log, r).edges
              /\ Raised("requires")
    /\ UNCHANGED <<fetchVars, stdin, disk, saves, nodes>>

\* ingest_all against a store that may reject any single write
NextFaults ==
    \/ \E c \in BOOLEAN : IngestAll(c)
    \/ \E a \in Responses : OperatorAnswers(a)
    \/ ConfirmClear
    \/ OpenResources
    \/ ResourceStep
    \/ ResourceStepRejected
    \/ ResourcesDone
    \/ OpenWeapons
    \/ WeaponStep
    \/ WeaponStepRejected
    \/ WeaponsDone
    \/ CategoryStep
    \/ CategoryStepRaises
    \/ CategoriesDone
    \/ OpenRecipes
    \/ RecipeStep
    \/ RecipeStepRejected
    \/ RecipesDone
    \/ LinkStep
    \/ LinkStepRaises
    \/ LinksDone

----------------------------------------------------------------------------
(* data_downloader.py: bytes, the LZMA decoder, text *)

\* bytes of a compressed stream: the header magic, the end-of-stream marker,
\* an invalid byte, and the codes of the three plaintext bytes
PayloadBytes == {"Za", "Zb", "Zn"}
CompressedBytes == {"H", "E", "X"} \cup PayloadBytes

\* what a payload code decodes to: the bytes of 'a', '!' and '\n'
Plain(z) == CASE z = "Za" -> 97 [] z = "Zb" -> 33 [] z = "Zn" -> 10

PlainBytes == {Plain(z) : z \in PayloadBytes}

\* bytes.decode("utf-8") of one ASCII byte
Char(b) == CASE b = 97 -> "a" [] b = 33 -> "!" [] b = 10 -> "\n"

Utf8Decode(bs) == [i \in 1..Len(bs) |-> Char(bs[i])]

RECURSIVE Join(_)
Join(parts) == IF parts = <<>> THEN <<>> ELSE Head(parts) \o Join(Tail(parts))

Result(error, out, eof, unused) ==
    [error |-> error, out |-> out, eof |-> eof, unused |-> unused]

\* LZMADecompressor.decompress after the header: output is produced as the
\* payload is read; the end marker sets eof and leaves the rest unused; a
\* byte that is no payload raises LZMAError; running out of input raises
\* nothing
RECURSIVE ReadPayload(_, _)
ReadPayload(data, out) ==
    IF data = <<>> THEN Result(FALSE, out, FALSE, <<>>)
    ELSE IF Head(data) = "E" THEN Result(FALSE, out, TRUE, Tail(data))
    ELSE IF Head(data) \in PayloadBytes
         THEN ReadPayload(Tail(data), Append(out, Plain(Head(data))))
    ELSE Result(TRUE, <<>>, FALSE, <<>>)

\* a decoder that raises on empty input as on any input without the header
DecompressStrict(data) ==
    IF data = <<>> \/ Head(data) # "H" THEN Result(TRUE, <<>>, FALSE, <<>>)
    ELSE ReadPayload(Tail(data), <<>>)

\* LZMADecompressor(FORMAT_AUTO).decompress(data) of a fresh decompressor
Decompress(data) ==
    IF data = <<>> THEN Result(FALSE, <<>>, FALSE, <<>>)
    ELSE IF Head(data) # "H" THEN Result(TRUE, <<>>, FALSE, <<>>)
    ELSE ReadPayload(Tail(data), <<>>)

\* decompress_lzma: [error, out]
RECURSIVE DecompressFrom(_, _)
DecompressFrom(data, results) ==
    LET d == Decompress(data) IN
    IF d.error
    THEN IF results # <<>>
         THEN [error |-> FALSE, out |-> Join(results)]
         ELSE [error |-> TRUE, out |-> <<>>]
    ELSE LET rs == Append(results, d.out) IN
         IF d.unused = <<>> THEN [error |-> FALSE, out |-> Join(rs)]
         ELSE IF ~d.eof THEN [error |-> TRUE, out |-> <<>>]
         ELSE DecompressFrom(d.unused, rs)

decompress_lzma(data) == DecompressFrom(data, <<>>)

\* Python's b[:n]
Slice(b, n) ==
    IF n >= 0 THEN SubSeq(b, 1, IF n < Len(b) THEN n ELSE Len(b))
    ELSE SubSeq(b, 1, IF Len(b) + n > 0 THEN Len(b) + n ELSE 0)

Whitespace == {"\n"}

\* str.strip()
RECURSIVE Strip(_)
Strip(t) ==
    IF t = <<>> THEN t
    ELSE IF Head(t) \in Whitespace THEN Strip(Tail(t))
    ELSE IF t[Len(t)] \in Whitespace THEN Strip(SubSeq(t, 1, Len(t) - 1))
    ELSE t

\* the part of t before the first sep (all of t when there is none)
RECURSIVE Before(_, _)
Before(t, sep) ==
    IF t = <<>> \/ Head(t) = sep THEN <<>>
    ELSE <<Head(t)>> \o Before(Tail(t), sep)

\* str.split(sep)
RECURSIVE Split(_, _)
Split(t, sep) ==
    LET first == Before(t, sep) IN
    IF Len(first) = Len(t) THEN <<t>>
    ELSE <<first>> \o Split(SubSeq(t, Len(first) + 2, Len(t)), sep)

\* decompress_index: f.read().strip().split('\n')
decompress_index(t) == Split(Strip(t), "\n")

\* the URL built from the identifier without its hash
ManifestUrlWithoutHash(manifest_path) == <<"http://content.warframe.com/PublicExport/Manifest/">> \o Before(manifest_path, "!")

\* get_manifest_url: base_url + manifest_path
get_manifest_url(manifest_path) == <<"http://content.warframe.com/PublicExport/Manifest/">> \o manifest_path

\* lzma.compress of a plaintext: one complete frame
Compressed(z) == CHOOSE c \in PayloadBytes : Plain(c) = z

Frame(plain) == <<"H">> \o [i \in 1..Len(plain) |-> Compressed(plain[i])] \o <<"E">>

\* the plaintexts of the frames of the model
Payloads == {<<>>} \cup {<<b>> : b \in PlainBytes}

\* index responses: complete frames followed by arbitrary bytes
Buffers ==
    {Join([i \in 1..Len(ps) |-> Frame(ps[i])]) \o tail :
        ps \in BoundedSeq(Payloads, MaxFrames),
        tail \in BoundedSeq(CompressedBytes, MaxTail)}

----------------------------------------------------------------------------
(* data_downloader.py: the script *)


Outcomes == {"ok", "http_error", "connection_error", "invalid_json"}

Say(msg, arg) == [msg |-> msg, arg |-> arg]

IngestOff ==
    /\ disk = [k \in Kinds |-> Missing]
    /\ saves = 0
    /\ nodes = EmptyMap
    /\ edges = EmptyMap
    /\ pc = "off"
    /\ cur = <<>>
    /\ idx = 1
    /\ cats = {}
    /\ log = <<>>
    /\ ends = <<>>
    /\ stdin = <<>>

InitFetch ==
    /\ byt = <<>>
    /\ length = 0
    /\ fpc = "start"
    /\ text = NoText
    /\ manifests = <<>>
    /\ mi = 1
    /\ attempts = <<>>
    /\ output = <<>>
    /\ status = 0
    /\ IngestOff

Statuses == {200, 404}

\* download_and_decompress: requests.get(url), byt = response.content,
\* length = len(byt); the status of the response is not looked at
FetchIndex ==
    /\ fpc = "start"
    /\ \E code \in Statuses, content \in Buffers :
        /\ status' = code
        /\ byt' = content
        /\ length' = Len(content)
    /\ fpc' = "retry"
    /\ UNCHANGED <<ingestVars, text, manifests, mi, attempts, output>>

\* download_and_decompress: requests.get raises (no connection); nothing
\* catches it
FetchIndexRaises ==
    /\ fpc = "start"
    /\ fpc' = "crashed"
    /\ output' = Append(output, Say("Traceback", <<"ConnectionError">>))
    /\ UNCHANGED <<ingestVars, byt, length, text, manifests, mi, attempts, status>>

\* download_and_decompress: one iteration of the while loop; when it breaks,
\* the text is decoded and written to index_en.txt
TryDecode ==
    /\ fpc = "retry"
    /\ LET r == decompress_lzma(Slice(byt, length)) IN
        IF r.error
        THEN /\ length' = length - 1
             /\ UNCHANGED <<fpc, text, output>>
        ELSE /\ text' = Utf8Decode(r.out)
             /\ fpc' = "saved"
             /\ output' = Append(output, Say("Saved decompressed file to", <<"index_en.txt">>))
             /\ UNCHANGED length
    /\ UNCHANGED <<ingestVars, byt, manifests, mi, attempts, status>>

\* __main__: manifests = get_all_manifests()
GetAllManifests ==
    /\ fpc = "saved"
    /\ manifests' = decompress_index(text)
    /\ mi' = 1
    /\ fpc' = "loop"
    /\ output' = Append(output, Say("Found manifests", <<>>))
    /\ UNCHANGED <<ingestVars, byt, length, text, attempts, status>>

\* the download loop without the try: a failed download ends the loop
DownloadStepNoTry(outcome) ==
    /\ fpc = "loop"
    /\ mi <= Len(manifests)
    /\ LET manifest == manifests[mi]
           filename == Before(manifest, "!")
           url == get_manifest_url(manifest)
           wrote == IF outcome = "ok" /\ filename # <<>> THEN filename ELSE NoFile
       IN  /\ attempts' = Append(attempts,
                   [manifest |-> manifest, url |-> url, outcome |-> outcome,
                    wrote |-> wrote])
           /\ output' = output \o
                   <<Say("Downloading and saving", manifest),
                     IF wrote # NoFile THEN Say("Successfully saved", filename)
                     ELSE Say("Failed to download", manifest)>>
           /\ mi' = IF wrote # NoFile THEN mi + 1 ELSE Len(manifests) + 1
    /\ UNCHANGED <<ingestVars, byt, length, fpc, text, manifests, status>>

\* __main__: one iteration of the download loop; outcome is what the remote
\* host does with the request of download_manifest_json
DownloadStep(outcome) ==
    /\ fpc = "loop"
    /\ mi <= Len(manifests)
    /\ LET manifest == manifests[mi]
           filename == Before(manifest, "!")
           url == get_manifest_url(manifest)
           \* open('data_raw/' + '') raises IsADirectoryError
           wrote == IF outcome = "ok" /\ filename # <<>> THEN filename ELSE NoFile
       IN  /\ attempts' = Append(attempts,
                   [manifest |-> manifest, url |-> url, outcome |-> outcome,
                    wrote |-> wrote])
           /\ output' = output \o
                   <<Say("Downloading and saving", manifest),
                     IF wrote # NoFile THEN Say("Successfully saved", filename)
                     ELSE Say("Failed to download", manifest)>>
    /\ mi' = mi + 1
    /\ UNCHANGED <<ingestVars, byt, length, fpc, text, manifests, status>>

\* __main__: the loop is over
DownloadsDone ==
    /\ fpc = "loop"
    /\ mi > Len(manifests)
    /\ fpc' = "done"
    /\ UNCHANGED <<ingestVars, byt, length, text, manifests, mi, attempts, output, status>>

NextFetch ==
    \/ FetchIndex
    \/ FetchIndexRaises
    \/ TryDecode
    \/ GetAllManifests
    \/ \E o \in Outcomes : DownloadStep(o)
    \/ DownloadsDone

----------------------------------------------------------------------------
(* Specifications *)

\* runs of ingest_all against a fixed data_raw/
Spec == InitIngest /\ [][NextIngest]_vars

\* the ingestion with manifests downloaded again between runs
SpecReload == InitReload /\ [][NextReload]_vars

\* runs of ingest_all against a store that may reject writes
SpecFaults == InitReload /\ [][NextFaults]_vars

\* the downloader script
SpecFetch == InitFetch /\ [][NextFetch]_vars

\* the downloader script runs on: no step of it waits for anything
SpecFetchFair == InitFetch /\ [][NextFetch]_vars /\ WF_vars(NextFetch)

----------------------------------------------------------------------------
(* Properties of the ingestion *)

Range(s) == {s[i] : i \in 1..Len(s)}

\* the statements of _create_recipe_relationships
MaterialiserOps == {"buildsWeapon", "buildsResource", "requires"}

\* the keys of the records of the manifest that pass validation
ValidKeys(kind) ==
    IF disk[kind] = Missing THEN {}
    ELSE {disk[kind][i].uniqueName : i \in
            {j \in 1..Len(disk[kind]) :
                CASE kind = "resources" -> ValidResource(disk[kind][j])
                  [] kind = "weapons"   -> ValidWeapon(disk[kind][j])
                  [] kind = "recipes"   -> ValidRecipe(disk[kind][j])}}

Issued(op) == {log[i].key : i \in {j \in 1..Len(log) : log[j].op = op}}

\* the pass of ingest_all a log entry belongs to
PassOf(op) ==
    CASE op = "clear" -> 0
      [] op \in {"upsertResource", "warnResource"} -> 1
      [] op \in {"upsertWeapon", "warnWeapon"} -> 2
      [] op \in {"mergeCategory", "linkCategory"} -> 3
      [] op \in {"upsertRecipe", "warnRecipe"} -> 4
      [] op \in MaterialiserOps -> 5

\* C1: within one run of ingest_all the passes run in the order Resources,
\* Weapons, categories, Recipe nodes, relationship derivation, and no
\* statement of the derivation (BUILDS, REQUIRES) is issued before every
\* Resource, Weapon and Recipe upsert of that run: when such a statement is
\* in the run's log, the upsert of every valid record of the three manifests
\* is in the log already, and no upsert of a Resource, Weapon or Recipe
\* follows it.
C1_NodesBeforeMaterialiser ==
    /\ \A i, j \in 1..Len(log) :
           i < j => PassOf(log[i].op) <= PassOf(log[j].op)
    /\ \A i \in 1..Len(log) :
        log[i].op \in MaterialiserOps =>
            /\ ValidKeys("resources") \subseteq
                   {log[j].key : j \in {k \in 1..i : log[k].op = "upsertResource"}}
            /\ ValidKeys("weapons") \subseteq
                   {log[j].key : j \in {k \in 1..i : log[k].op = "upsertWeapon"}}
            /\ ValidKeys("recipes") \subseteq
                   {log[j].key : j \in {k \in 1..i : log[k].op = "upsertRecipe"}}
            /\ \A j \in i..Len(log) :
                   log[j].op \notin {"upsertResource", "upsertWeapon", "upsertRecipe"}

\* a run that upserted a node of each label and then issued BUILDS and
\* REQUIRES statements
C1_Witness ==
    /\ pc = "links"
    /\ Issued("upsertResource") # {}
    /\ Issued("upsertWeapon") # {}
    /\ Issued("upsertRecipe") # {}
    /\ Issued("buildsWeapon") # {}
    /\ Issued("requires") # {}

\* C2: every edge of the store connects two nodes that are in the store, in
\* every state of every run (also after a clear and after an aborted run).
C2_EdgeEndpointsExist ==
    \A e \in DOMAIN edges :
        /\ edges[e] >= 1
        /\ e.src \in DOMAIN nodes
        /\ e.dst \in DOMAIN nodes

\* a run that began with a clear of a store and has written edges of the
\* three types
C2_Witness ==
    /\ Len(log) > 0
    /\ log[1].op = "clear"
    /\ \A t \in {"BELONGS_TO", "BUILDS", "REQUIRES"} :
           \E e \in DOMAIN edges : e.type = t

NoDuplicates(s) ==
    /\ \A id \in DOMAIN s.nodes : s.nodes[id].n = 1
    /\ \A e \in DOMAIN s.edges : s.edges[e] = 1

\* C3: two consecutive complete runs of ingest_all on the same data_raw/,
\* the second without a clear, end in the same store, whatever the store held
\* before the first: the same nodes with the
\* same properties and the same edges, none of them twice.
C3_RerunIdempotent ==
    Len(ends) = 2 => (ends[1] = ends[2] /\ NoDuplicates(ends[2]))

\* the second of two runs has ended, on a store with nodes of the four labels
\* and edges of the three types; the first of them began on what a run on
\* other input had left (a Resource that is no more in the manifest)
C3_Witness ==
    /\ Len(ends) = 2
    /\ pc = "idle"
    /\ \E id \in DOMAIN ends[2].nodes :
           id[1] = "Resource" /\ id[2] \notin ValidKeys("resources")
    /\ \A l \in {"Resource", "Weapon", "Category", "Recipe"} :
           \E id \in DOMAIN ends[2].nodes : id[1] = l
    /\ \A t \in {"BELONGS_TO", "BUILDS", "REQUIRES"} :
           \E e \in DOMAIN ends[2].edges : e.type = t

\* the BUILDS and REQUIRES edges of store s
DerivedEdges(es) == {e \in DOMAIN es : e.type \in {"BUILDS", "REQUIRES"}}

\* C4: after any sequence of ingestion runs, with manifests rewritten between
\* them, there is at most one BUILDS edge between a Recipe and a target and at
\* most one REQUIRES edge between a Recipe and a Resource (a different
\* quantity overwrites), and after a complete run the BUILDS edges of a valid
\* recipe record carry the quantity of that run.
C4_QuantityOverwritten ==
    /\ \A e \in DerivedEdges(edges) : edges[e] = 1
    /\ \A e1, e2 \in DerivedEdges(edges) :
           (e1.type = e2.type /\ e1.src = e2.src /\ e1.dst = e2.dst) => e1 = e2
    /\ (pc = "idle" /\ Len(ends) >= 1) =>
           \A i \in 1..Len(disk.recipes) :
               LET r == disk.recipes[i] IN
               ValidRecipe(r) =>
                   \A e \in DerivedEdges(edges) :
                       (e.type = "BUILDS" /\ e.src = Node("Recipe", r.uniqueName))
                           => e.attrs.quantity = Get(r, "num", 1)

\* the edges a step has added
Added == (DOMAIN edges') \ (DOMAIN edges)

\* one iteration of the derivation loop is taken for a record whose Recipe
\* node is in the store
LinksRecipe ==
    /\ pc = "links" /\ pc' = "links" /\ idx' = idx + 1
    /\ Match(nodes, "Recipe", "uniqueName", Get(cur[idx], "uniqueName", None)) # {}
    /\ Get(cur[idx], "resultType", None) # None

WeaponOfResult ==
    Match(nodes, "Weapon", "uniqueName", Get(cur[idx], "resultType", None))

\* C5: when the derivation handles a Recipe (its node is in the store): if a
\* Weapon has the uniqueName that resultType names, the BUILDS edge of the
\* recipe is there after the step and targets that Weapon, and the step adds
\* no BUILDS edge to a Resource, whether or not a Resource has that uniqueName
\* too; the Resource match is issued if and only if no such Weapon exists.
C5_WeaponPrecedence ==
    [][LinksRecipe =>
        /\ WeaponOfResult # {} =>
              /\ \A e \in Added : e.type = "BUILDS" => e.dst[1] = "Weapon"
              /\ \E e \in DOMAIN edges' :
                     /\ e.type = "BUILDS"
                     /\ e.src = Node("Recipe", cur[idx].uniqueName)
                     /\ e.dst \in WeaponOfResult
        /\ (\E i \in (Len(log) + 1)..Len(log') : log'[i].op = "buildsResource")
              <=> WeaponOfResult = {}
    ]_vars

\* the derivation has handled recipe r, whose resultType "a" is the
\* uniqueName of a Weapon and of a Resource of the store: the BUILDS edge goes
\* to the Weapon, none to the Resource, and the Resource match was not issued
C5_Witness ==
    /\ pc = "links"
    /\ idx > 1
    /\ Get(cur[idx - 1], "resultType", None) = "a"
    /\ {Node("Recipe", "r"), Node("Weapon", "a"), Node("Resource", "a")}
           \subseteq DOMAIN nodes
    /\ \E e \in DOMAIN edges :
           e.type = "BUILDS" /\ e.src = Node("Recipe", "r")
                            /\ e.dst = Node("Weapon", "a")
    /\ ~ \E e \in DOMAIN edges : e.type = "BUILDS" /\ e.dst[1] = "Resource"
    /\ Issued("buildsWeapon") = {"r"}
    /\ Issued("buildsResource") = {}

ValidIn(kind, r) ==
    CASE kind = "resources" -> ValidResource(r)
      [] kind = "weapons"   -> ValidWeapon(r)
      [] kind = "recipes"   -> ValidRecipe(r)

UpsertOp(kind) ==
    CASE kind = "resources" -> "upsertResource"
      [] kind = "weapons"   -> "upsertWeapon"
      [] kind = "recipes"   -> "upsertRecipe"

WarnOp(kind) ==
    CASE kind = "resources" -> "warnResource"
      [] kind = "weapons"   -> "warnWeapon"
      [] kind = "recipes"   -> "warnRecipe"

LabelOf(kind) ==
    CASE kind = "resources" -> "Resource"
      [] kind = "weapons"   -> "Weapon"
      [] kind = "recipes"   -> "Recipe"

\* what the pass over manifest kind has logged so far
PassLog(kind) ==
    LET OfPass(e) == e.op \in {UpsertOp(kind), WarnOp(kind)}
    IN  SelectSeq(log, OfPass)

\* the loop of a node pass stands before a record that fails validation
AtInvalidRecord ==
    /\ pc \in Kinds
    /\ idx <= Len(cur)
    /\ ~ValidIn(pc, cur[idx])

\* C10: in each of the three node passes a record that fails validation is
\* reported and skipped: the step writes nothing to the store and the loop
\* goes on to the next record; so the pass has handled every record it has
\* passed, in order, with a report for each invalid one and an upsert, and a
\* node in the store, for each valid one.
C10_InvalidRecordSkipped ==
    /\ [](pc \in Kinds =>
            /\ Len(PassLog(pc)) = idx - 1
            /\ \A i \in 1..(idx - 1) :
                   IF ValidIn(pc, cur[i])
                   THEN /\ PassLog(pc)[i] = Stmt(UpsertOp(pc), cur[i].uniqueName)
                        /\ Node(LabelOf(pc), cur[i].uniqueName) \in DOMAIN nodes
                   ELSE PassLog(pc)[i].op = WarnOp(pc))
    /\ [][AtInvalidRecord =>
            /\ nodes' = nodes
            /\ edges' = edges
            /\ pc' = pc
            /\ cur' = cur
            /\ idx' = idx + 1
            /\ Len(log') = Len(log) + 1
            /\ log'[Len(log')].op = WarnOp(pc)
        ]_vars

\* a report of pass kind is followed by an upsert of the same pass
ReportedThenUpserted(kind) ==
    \E i, j \in 1..Len(log) :
        i < j /\ log[i].op = WarnOp(kind) /\ log[j].op = UpsertOp(kind)

\* a run in which each of the three passes met an invalid record and
\* upserted the valid record behind it
C10_Witness ==
    /\ pc = "recipes"
    /\ idx = Len(cur) + 1
    /\ \A k \in Kinds : ReportedThenUpserted(k)
    /\ ~ValidRecipe(cur[1])
    /\ ValidRecipe(cur[2])
    /\ Node("Recipe", cur[2].uniqueName) \in DOMAIN nodes
    /\ \E id \in DOMAIN nodes : id[1] = "Resource"
    /\ \E id \in DOMAIN nodes : id[1] = "Weapon"

----------------------------------------------------------------------------
(* Properties of the downloader *)

\* C6: when the index response is two complete frames followed by N garbage
\* bytes, 1 <= N < the size of a frame, decompress_lzma returns exactly the
\* plaintext of the first frame followed by that of the second, and that is
\* the text download_and_decompress writes.
C6_TwoFramesPlusGarbage ==
    \A p1, p2 \in Payloads, g \in BoundedSeq(CompressedBytes, MaxTail) :
        ( /\ fpc # "start"
          /\ byt = Frame(p1) \o Frame(p2) \o g
          /\ 1 <= Len(g)
          /\ Len(g) < Len(Frame(p1))
          /\ Len(g) < Len(Frame(p2)) )
        => /\ decompress_lzma(byt) = [error |-> FALSE, out |-> p1 \o p2]
           /\ fpc \in {"saved", "loop", "done"} => text = Utf8Decode(p1 \o p2)

\* C7: when decompress_lzma fails on the whole response before it has decoded
\* a frame, the fetch ends there: the candidate length is not shrunk and no
\* index text is decoded or written.
C7_FirstFrameFailureFatal ==
    (fpc # "start" /\ decompress_lzma(byt).error) =>
        /\ length = Len(byt)
        /\ text = NoText
        /\ fpc \notin {"saved", "loop", "done"}

\* C8: the retry loop of download_and_decompress ends for every response,
\* and the candidate length is never below zero.
C8_RetryTerminates ==
    /\ [](length >= 0)
    /\ (fpc = "retry") ~> (fpc = "saved")

\* the loop has shrunk a response of two bytes to nothing and has ended
C8_Witness ==
    /\ fpc = "saved"
    /\ Len(byt) = 2
    /\ length = 0

\* C9: the download loop attempts every manifest of the list once, in the
\* order of the list, whatever the outcome of the downloads before it; a
\* failed download is reported and writes no file.
C9_FailureTolerantLoop ==
    fpc \in {"loop", "done"} =>
        /\ mi = Len(attempts) + 1
        /\ fpc = "done" => Len(attempts) = Len(manifests)
        /\ \A i \in 1..Len(attempts) :
               /\ attempts[i].manifest = manifests[i]
               /\ attempts[i].outcome # "ok" =>
                      /\ attempts[i].wrote = NoFile
                      /\ Say("Failed to download", manifests[i]) \in Range(output)

\* the loop is over: the first of two downloads failed and wrote nothing, the
\* second was made all the same and wrote its file
C9_Witness ==
    /\ fpc = "done"
    /\ Len(manifests) = 2
    /\ Len(attempts) = 2
    /\ attempts[1].outcome # "ok"
    /\ attempts[1].wrote = NoFile
    /\ attempts[2].outcome = "ok"
    /\ attempts[2].wrote # NoFile

----------------------------------------------------------------------------
(* Properties of the ingestion against a store that rejects writes *)

\* C11: a rejected edge write is skipped like a rejected node upsert: an
\* iteration of the category loop or of the derivation loop is followed by
\* the next position of the same loop, whatever the store did with its
\* writes, so that the pass goes on to the remaining edges and the run to
\* its end.
C11_RejectedEdgeWriteSkipped ==
    [][ /\ (pc = "links" /\ idx <= Len(cur)) =>
              (pc' = "links" /\ idx' = idx + 1)
        /\ (pc = "categories" /\ cats # {}) =>
              (pc' = "categories" /\ cats' # cats /\ cats' \subseteq cats)
      ]_vars

----------------------------------------------------------------------------
(* Properties of the ingestion, continued *)

\* the Weapon nodes of the store that carry a productCategory
CategorisedWeapons ==
    {w \in DOMAIN nodes :
        w[1] = "Weapon" /\ "productCategory" \in DOMAIN nodes[w].props}

BelongsTo(w) == {e \in DOMAIN edges : e.type = "BELONGS_TO" /\ e.src = w}

\* C12: outside the Weapon pass (after it has run, once or repeatedly), every
\* valid weapon record of the run that has a productCategory is a Weapon node
\* with that productCategory, and for every Weapon node with productCategory c
\* exactly one Category node named c exists and the Weapon has exactly one
\* BELONGS_TO edge, which goes to that node.
C12_OneCategoryOneEdge ==
    /\ pc \in {"open_recipes", "recipes", "links"} =>
          \A i \in 1..Len(disk.weapons) :
              LET r == disk.weapons[i] IN
              (ValidWeapon(r) /\ "productCategory" \in DOMAIN r) =>
                  /\ Node("Weapon", r.uniqueName) \in CategorisedWeapons
                  /\ nodes[Node("Weapon", r.uniqueName)].props.productCategory
                         = r.productCategory
    /\ pc \notin {"weapons", "categories"} =>
          \A w \in CategorisedWeapons :
              LET c == nodes[w].props.productCategory IN
              /\ Match(nodes, "Category", "name", c) = {Node("Category", c)}
              /\ nodes[Node("Category", c)].n = 1
              /\ BelongsTo(w) = {Edge("BELONGS_TO", w, Node("Category", c), EmptyMap)}
              /\ \A e \in BelongsTo(w) : edges[e] = 1

\* the Weapon pass has run in two consecutive runs over two weapons of the
\* category Pistols
C12_Witness ==
    /\ Len(ends) = 2
    /\ pc = "idle"
    /\ CategorisedWeapons = {Node("Weapon", "a"), Node("Weapon", "b")}
    /\ \A w \in CategorisedWeapons :
           BelongsTo(w) = {Edge("BELONGS_TO", w, Node("Category", "Pistols"), EmptyMap)}


\* the record under the derivation names a result that is neither a Weapon
\* nor a Resource of the store
ResultUnmatched ==
    /\ pc = "links" /\ idx <= Len(cur)
    /\ Match(nodes, "Recipe", "uniqueName", Get(cur[idx], "uniqueName", None)) # {}
    /\ Get(cur[idx], "resultType", None) # None
    /\ WeaponOfResult = {}
    /\ Match(nodes, "Resource", "uniqueName", cur[idx].resultType) = {}

BuildsOf(es, recipe) ==
    {e \in DOMAIN es : e.type = "BUILDS" /\ e.src = Node("Recipe", recipe)}

\* C13: a Recipe whose resultType matches neither a Weapon nor a Resource is
\* no error: the iteration of the derivation that handles it issues both
\* matches, adds no BUILDS edge and is followed by the next record of the
\* loop; and no BUILDS edge from the recipe to a node named by such a
\* resultType is ever in the store.
C13_UnmatchedResultNoEdge ==
    /\ [][ResultUnmatched =>
             /\ pc' = "links" /\ idx' = idx + 1
             /\ \A e \in Added : e.type # "BUILDS"
             /\ BuildsOf(edges', cur[idx].uniqueName)
                    = BuildsOf(edges, cur[idx].uniqueName)
             /\ \E i \in (Len(log) + 1)..Len(log') : log'[i].op = "buildsResource"
          ]_vars
    /\ [](\A i \in 1..Len(disk.recipes) :
             LET r == disk.recipes[i] IN
             (/\ ValidRecipe(r)
              /\ r.resultType \notin ValidKeys("weapons") \cup ValidKeys("resources"))
             => \A e \in BuildsOf(edges, r.uniqueName) : e.dst[2] # r.resultType)

\* the derivation has gone through all records, among them recipe r with
\* resultType "b", while the only Resource of the store is named "a" and no
\* Weapon is named "b": r is a Recipe node without a BUILDS edge
C13_Witness ==
    /\ pc = "links" /\ idx > Len(cur)
    /\ Node("Recipe", "r") \in DOMAIN nodes
    /\ Node("Resource", "a") \in DOMAIN nodes
    /\ Node("Resource", "b") \notin DOMAIN nodes
    /\ Node("Weapon", "b") \notin DOMAIN nodes
    /\ \E i \in 1..Len(disk.recipes) :
           ValidRecipe(disk.recipes[i]) /\ disk.recipes[i].resultType = "b"
    /\ BuildsOf(edges, "r") = {}
    /\ \E i \in 1..Len(log) : log[i] = Stmt("buildsResource", "r")


RequiresEdges(es) == {e \in DOMAIN es : e.type = "REQUIRES"}

\* the ItemTypes of the ingredients of a record
ItemTypes(r) ==
    LET ingredients == Get(r, "ingredients", <<>>) IN
    {Get(ingredients[i], "ItemType", None) : i \in 1..Len(ingredients)} \ {None}

\* the record under the derivation is a Recipe of the store and has an
\* ingredient whose ItemType names no Resource of the store
IngredientUnmatched ==
    /\ pc = "links" /\ idx <= Len(cur)
    /\ Match(nodes, "Recipe", "uniqueName", Get(cur[idx], "uniqueName", None)) # {}
    /\ \E t \in ItemTypes(cur[idx]) : Match(nodes, "Resource", "uniqueName", t) = {}

\* C14: every REQUIRES edge of the store goes from a Recipe node to a
\* Resource node (never to a Weapon), both in the store, and the uniqueName
\* of the Resource is the ItemType of an ingredient of a record of that
\* recipe; an iteration of the derivation over a record with an ingredient
\* that names no Resource adds no REQUIRES edge to a node of that name, issues
\* the REQUIRES statement and is followed by the next record of the loop.
C14_RequiresOnlyResources ==
    /\ [](\A e \in RequiresEdges(edges) :
             /\ e.src \in DOMAIN nodes /\ e.src[1] = "Recipe"
             /\ e.dst \in DOMAIN nodes /\ e.dst[1] = "Resource"
             /\ \E i \in 1..Len(disk.recipes) :
                    /\ Get(disk.recipes[i], "uniqueName", None) = e.src[2]
                    /\ e.dst[2] \in ItemTypes(disk.recipes[i]))
    /\ [][IngredientUnmatched =>
             /\ pc' = "links" /\ idx' = idx + 1
             /\ \A t \in ItemTypes(cur[idx]) :
                    Match(nodes, "Resource", "uniqueName", t) = {} =>
                        \A e \in Added : e.type = "REQUIRES" => e.dst[2] # t
             /\ \E i \in (Len(log) + 1)..Len(log') : log'[i].op = "requires"
          ]_vars

\* the derivation has gone through recipe r, which requires "b", the name of
\* a Weapon of the store and of no Resource, and then "a", a Resource of the
\* store: r has the one REQUIRES edge to the Resource
C14_Witness ==
    /\ pc = "links" /\ idx > Len(cur)
    /\ Node("Weapon", "b") \in DOMAIN nodes
    /\ Node("Resource", "b") \notin DOMAIN nodes
    /\ \E i \in 1..Len(disk.recipes) :
           /\ ValidRecipe(disk.recipes[i])
           /\ "b" \in ItemTypes(disk.recipes[i])
    /\ {e.dst : e \in RequiresEdges(edges)} = {Node("Resource", "a")}
    /\ \E i \in 1..Len(log) : log[i] = Stmt("requires", "r")


\* the quantities the ingredients of a record declare for ItemType t
ItemCounts(r, t) ==
    LET ingredients == Get(r, "ingredients", <<>>) IN
    {Get(ingredients[i], "ItemCount", 1) :
        i \in {j \in 1..Len(ingredients) :
                  Get(ingredients[j], "ItemType", None) = t}}

\* the targets a BUILDS statement of the record under the derivation matches
TargetOfResult ==
    IF WeaponOfResult # {} THEN WeaponOfResult
    ELSE Match(nodes, "Resource", "uniqueName", Get(cur[idx], "resultType", None))

\* C15: an iteration of the derivation for a Recipe of the store creates the
\* BUILDS edge with quantity num of the record, 1 when the record has no num,
\* and the REQUIRES edge to each Resource an ingredient names with quantity
\* ItemCount of that ingredient, 1 when it has none; every edge the iteration
\* adds carries such a quantity, and so does every BUILDS and REQUIRES edge
\* of a store filled from one set of manifests.
C15_EdgeQuantities ==
    /\ [][LinksRecipe =>
             LET r == cur[idx]
                 recipe == Node("Recipe", r.uniqueName)
             IN  /\ \A e \in Added :
                        /\ e.type = "BUILDS" =>
                               e.attrs.quantity = Get(r, "num", 1)
                        /\ e.type = "REQUIRES" =>
                               e.attrs.quantity \in ItemCounts(r, e.dst[2])
                 /\ \A b \in TargetOfResult :
                        Edge("BUILDS", recipe, b, [quantity |-> Get(r, "num", 1)])
                            \in DOMAIN edges'
                 /\ \A t \in ItemTypes(r) :
                        \A b \in Match(nodes, "Resource", "uniqueName", t) :
                            \A q \in ItemCounts(r, t) :
                                Edge("REQUIRES", recipe, b, [quantity |-> q])
                                    \in DOMAIN edges'
          ]_vars
    /\ [](\A e \in DerivedEdges(edges) :
             \E i \in 1..Len(disk.recipes) :
                 LET r == disk.recipes[i] IN
                 /\ Get(r, "uniqueName", None) = e.src[2]
                 /\ e.type = "BUILDS" =>
                        /\ Get(r, "resultType", None) = e.dst[2]
                        /\ e.attrs.quantity = Get(r, "num", 1)
                 /\ e.type = "REQUIRES" =>
                        e.attrs.quantity \in ItemCounts(r, e.dst[2]))

\* the derivation has gone through recipe r with num 2, which builds Resource
\* "b" and requires "b", without ItemCount, and 5 of Resource "a": the BUILDS
\* edge has quantity 2 and the REQUIRES edges quantities 1 and 5
C15_Witness ==
    /\ pc = "links" /\ idx > Len(cur)
    /\ \E i \in 1..Len(disk.recipes) :
           /\ ValidRecipe(disk.recipes[i])
           /\ "num" \in DOMAIN disk.recipes[i]
    /\ LET recipe == Node("Recipe", "r") IN
       DOMAIN edges =
           { Edge("BUILDS", recipe, Node("Resource", "b"), [quantity |-> 2]),
             Edge("REQUIRES", recipe, Node("Resource", "b"), [quantity |-> 1]),
             Edge("REQUIRES", recipe, Node("Resource", "a"), [quantity |-> 5]) }


RecipeNodes == {id \in DOMAIN nodes : id[1] = "Recipe"}

\* C16: the properties of a Recipe node of the store hold neither the
\* ingredient list nor the result type of its record.
C16_RecipePropsWithoutLinks ==
    \A id \in RecipeNodes :
        /\ "ingredients" \notin DOMAIN nodes[id].props
        /\ "resultType" \notin DOMAIN nodes[id].props


----------------------------------------------------------------------------
(* Properties of the ingestion over manifests that are downloaded again *)

\* the resource pass of the current run is over
ResourcePassDone ==
    pc \in {"open_weapons", "weapons", "categories", "open_recipes",
            "recipes", "links"}

\* C17: after the resource pass, the properties of the Resource node of every
\* valid record of the manifest are the fields of that record and nothing
\* else: a field stored by an earlier run that the record no longer carries
\* is not on the node.
C17_UpsertOverwritesAllFields ==
    ResourcePassDone =>
        \A i \in 1..Len(disk.resources) :
            LET r == disk.resources[i] IN
            ValidResource(r) =>
                /\ Node("Resource", r.uniqueName) \in DOMAIN nodes
                /\ nodes[Node("Resource", r.uniqueName)].props = r


----------------------------------------------------------------------------
(* Properties of the downloader, continued *)

\* the lines of a text that are not blank, in source order
NonBlankLines(t) ==
    SelectSeq(Split(t, "\n"), LAMBDA line : \E i \in 1..Len(line) : line[i] \notin Whitespace)

\* C18: the manifest identifiers got from a decoded index text are exactly
\* the non-blank lines of the text, in source order, and none of them is
\* empty, whatever the text (an empty index included).
C18_IdentifiersAreNonBlankLines ==
    fpc = "loop" =>
        /\ manifests = NonBlankLines(text)
        /\ \A i \in 1..Len(manifests) : manifests[i] # <<>>


\* the positions of '!' in an identifier
Bangs(m) == {k \in 1..Len(m) : m[k] = "!"}

FirstBang(m) == CHOOSE k \in Bangs(m) : \A j \in Bangs(m) : k <= j

\* C19: for every identifier name!hash of the loop, the URL requested is the
\* manifest base URL followed by the whole identifier, hash included, and
\* the file a successful download writes is named by the part of the
\* identifier before its first '!'.
C19_UrlWholeFilenameBeforeBang ==
    \A i \in 1..Len(attempts) :
        LET m == attempts[i].manifest IN
        (Bangs(m) # {} /\ FirstBang(m) > 1) =>
            /\ attempts[i].url =
                   <<"http://content.warframe.com/PublicExport/Manifest/">> \o m
            /\ attempts[i].outcome = "ok" =>
                   attempts[i].wrote = SubSeq(m, 1, FirstBang(m) - 1)

\* the identifier a!a has been downloaded from the base URL followed by a!a
\* and saved as a
C19_Witness ==
    /\ fpc = "done"
    /\ manifests = << <<"a", "!", "a">> >>
    /\ Len(attempts) = 1
    /\ attempts[1].outcome = "ok"
    /\ attempts[1].url = <<"http://content.warframe.com/PublicExport/Manifest/", "a", "!", "a">>
    /\ attempts[1].wrote = <<"a">>


\* C20: a response outside 2xx is a retrieval failure, for the index as for
\* a manifest: when the index response is not 2xx its body is not decoded
\* into an index text, no index is written and the script does not go on to
\* the manifests; a manifest whose response is not 2xx writes no file.
C20_Non2xxIsFailure ==
    /\ status \in Statuses \ (200..299) =>
           /\ text = NoText
           /\ fpc \notin {"saved", "loop", "done"}
           /\ \A i \in 1..Len(output) : output[i].msg # "Saved decompressed file to"
    /\ \A i \in 1..Len(attempts) :
           attempts[i].outcome = "http_error" => attempts[i].wrote = NoFile


----------------------------------------------------------------------------
(* Properties of the clear *)

\* the answers that read 'yes' whatever their case
YesAnswers == {"yes", "YES"}

ClearIssued(lg) == \E i \in 1..Len(lg) : lg[i].op = "clear"

\* something of the store is gone after the step
Deletes ==
    \/ \E id \in DOMAIN nodes : id \notin DOMAIN nodes'
    \/ \E e \in DOMAIN edges : e \notin DOMAIN edges' \/ edges'[e] < edges[e]

\* C21: the clear is gated by the flag and the operator's answer: the prompt
\* is reached only in a run with the clear flag; when input() reads an answer
\* that is 'yes' in any case, the store is cleared and the clear is issued;
\* when it reads any other answer, and in a run without the flag, no node and
\* no edge is deleted and no clear is issued; either way the run goes on to
\* the resource pass; and no other step of a run deletes anything.
C21_ClearGatedByConfirmation ==
    [][ /\ (pc = "confirm" /\ stdin # <<>>) =>
               /\ pc' = "open_resources"
               /\ Head(stdin) \in YesAnswers =>
                      /\ nodes' = EmptyMap /\ edges' = EmptyMap
                      /\ ClearIssued(log')
               /\ Head(stdin) \notin YesAnswers =>
                      /\ nodes' = nodes /\ edges' = edges
                      /\ ~ClearIssued(log')
        /\ (pc = "idle" /\ pc' = "open_resources") =>
               /\ nodes' = nodes /\ edges' = edges
               /\ ~ClearIssued(log')
        /\ ~(pc = "confirm" /\ stdin # <<>>) =>
               /\ ~Deletes
               /\ ClearIssued(log') => ClearIssued(log)
      ]_vars

\* a run with the clear flag, over a store that holds nodes and edges: the
\* operator has typed YES and input() is about to read it
C21_Witness ==
    /\ pc = "confirm"
    /\ stdin = <<"YES">>
    /\ DOMAIN nodes # {}
    /\ DOMAIN edges # {}


----------------------------------------------------------------------------
(* Properties of the derivation over manifests that are downloaded again *)

\* C22: whatever runs were made and whatever was downloaded between them,
\* each Recipe node of the store has at most one outgoing BUILDS edge.
C22_AtMostOneBuilds ==
    \A id \in RecipeNodes :
        /\ Cardinality(BuildsOf(edges, id[2])) <= 1
        /\ \A e \in BuildsOf(edges, id[2]) : edges[e] = 1


\* the derivation is at a record that the validator of the recipe pass
\* skipped in this run
AtSkippedRecipe ==
    /\ pc = "links"
    /\ idx <= Len(cur)
    /\ ~ValidRecipe(cur[idx])

\* C23: the derivation uses only the records that passed validation: the
\* iteration over a record that the validator skipped in this run leaves the
\* edges of the store as they are, also when a Recipe node with the
\* uniqueName of the record is in the store from an earlier run.
C23_SkippedRecipeDerivesNothing ==
    [][AtSkippedRecipe => edges' = edges]_vars

====
